---- MODULE Spec2Model ----
(***************************************************************************)
(* Beam search decoding of Seq2SeqWithBPE.decode_beam_search               *)
(* (src/seq2seq.py, lines 147-197).                                        *)
(*                                                                         *)
(* The sequence model (inference_decoder_model.predict) and numpy's        *)
(* argsort are deterministic functions whose values are not known: each is *)
(* a table that is filled in the first time the decoder asks for a value   *)
(* and is read afterwards.                                                 *)
(*                                                                         *)
(* A probability is a multiple of 1/Unit, Unit a power of two, and the     *)
(* probabilities of a distribution add up to Unit.  np.log is modelled in  *)
(* base 2, which scales every score by the same positive factor.           *)
(***************************************************************************)
EXTENDS Integers, Sequences, FiniteSets, TLC

\* ---------------------------------------------------------------- bounds
MaxVocab == 3
MaxBeamWidth == 2
MaxLenTarget == 3
MaxExp == 1
MaxCalls == 2

\* ------------------------------------------------------- the vocabulary
start_token_idx == 0
stop_token_idx == 1

\* bpe_target.tokens[idx]: the piece of a token id
tokens(idx) == <<"piece", idx>>

\* bpe_target.start_token
start_token == tokens(start_token_idx)

Vocab(n) == 0 .. (n - 1)

\* ------------------------------------------------------- probabilities
Unit == 2 ^ (MaxExp + 1)

RECURSIVE SumOver(_, _)
SumOver(f, S) ==
    IF S = {} THEN 0
    ELSE LET x == CHOOSE y \in S : TRUE IN f[x] + SumOver(f, S \ {x})

\* the values a softmax output takes in the general model: 0 and 2^-e
ProbValues == {0} \cup {Unit \div (2 ^ e) : e \in 0 .. MaxExp}

\* the outputs of decoder_dense (softmax) over n tokens
Distributions(n) ==
    {d \in [Vocab(n) -> ProbValues] : SumOver(d, Vocab(n)) = Unit}

\* a score: a finite multiple of log 2, or +infinity
Finite(v) == [inf |-> FALSE, val |-> v]
Infinity == [inf |-> TRUE, val |-> 0]

\* -np.log(p)
NegLogWrongSign(p) ==
    IF p = 0 THEN Infinity
    ELSE Finite(0 - (CHOOSE e \in 0 .. (MaxExp + 1) : p * (2 ^ e) = Unit))

\* -np.log(np.maximum(p, eps)): a zero probability clamped to a finite score
NegLogClamped(p) ==
    IF p = 0 THEN Finite(MaxExp + 2)
    ELSE Finite(CHOOSE e \in 0 .. (MaxExp + 1) : p * (2 ^ e) = Unit)

NegLog(p) ==
    IF p = 0 THEN Infinity
    ELSE Finite(CHOOSE e \in 0 .. (MaxExp + 1) : p * (2 ^ e) = Unit)

\* float addition of two scores
ScoreAdd(a, b) ==
    IF a.inf \/ b.inf THEN Infinity ELSE Finite(a.val + b.val)

\* a <= b on scores
ScoreLE(a, b) ==
    IF b.inf THEN TRUE
    ELSE IF a.inf THEN FALSE
    ELSE a.val <= b.val

\* a < b on scores
ScoreLT(a, b) == ~ScoreLE(b, a)

\* ------------------------------------------------------------ numpy, lists
Min(a, b) == IF a <= b THEN a ELSE b

\* s[:k] for k >= 0
Slice(s, k) == SubSeq(s, 1, Min(k, Len(s)))

\* every ordering of the ids of probs
Orderings(probs) ==
    {s \in [1 .. Cardinality(DOMAIN probs) -> DOMAIN probs] :
        \A i, j \in DOMAIN s : i # j => s[i] # s[j]}

ArgsortAscending(probs) ==
    {s \in Orderings(probs) :
        \A i \in 1 .. (Len(s) - 1) : probs[s[i]] <= probs[s[i + 1]]}

\* np.argsort(-probs): the orderings by descending probability.  The default
\* kind is not a stable sort: the order among equal probabilities is whatever
\* the numpy build produces.
ArgsortResults(probs) ==
    {s \in Orderings(probs) :
        \A i \in 1 .. (Len(s) - 1) : probs[s[i]] >= probs[s[i + 1]]}

\* np.argsort(probs) in place of np.argsort(-probs)
ArgsortNotNegated(probs, tab) == ArgsortAscending(probs)

\* an argsort that may order the same array differently on another call
ArgsortUnrepeatable(probs, tab) == ArgsortResults(probs)

\* np.argsort(-probs) as the function of its argument that a build computes
Argsort(probs, tab) ==
    IF probs \in DOMAIN tab THEN {tab[probs]} ELSE ArgsortResults(probs)

\* inference_decoder_model.predict([target_seq, states]) as a function of
\* its input; key is the decoder state after reading target_seq[0, 0]
Predict(key, tab, outputs) ==
    IF key \in DOMAIN tab THEN {tab[key]} ELSE outputs

\* tab with tab[k] = v
Memo(tab, k, v) == [x \in DOMAIN tab \cup {k} |-> IF x = k THEN v ELSE tab[x]]

\* --------------------------------------------------------- candidates
Last(s) == s[Len(s)]

InitialCandidate(initial_states) ==
    [states |-> initial_states,
     idx_sequence |-> <<start_token_idx>>,
     token_sequence |-> <<start_token>>,
     score |-> Finite(0),
     live |-> TRUE]

\* a dead candidate that grows by one more stop token in every generation
PassedThroughPadded(candidate) ==
    [candidate EXCEPT
        !.idx_sequence = Append(candidate.idx_sequence, stop_token_idx),
        !.token_sequence = Append(candidate.token_sequence, tokens(stop_token_idx))]

\* a dead candidate charged one more unit of score in every generation
PassedThroughRescored(candidate) ==
    [candidate EXCEPT !.score = ScoreAdd(candidate.score, Finite(1))]

\* new_candidates.append(candidate): what a dead candidate enters the pool as
PassedThrough(candidate) == candidate

\* 'score': candidate['score'] + np.log(probs[idx])
SuccessorScoreAddsLog(score, p) == ScoreAdd(score, NegLogWrongSign(p))

\* 'score': candidate['score'] - np.log(probs[idx])
SuccessorScore(score, p) == ScoreAdd(score, NegLog(p))

\* the candidate appended for idx
\* 'live': idx != start_token_idx, the wrong token tested
SuccessorTestsStartToken(candidate, probs, states, idx) ==
    [states |-> states,
     idx_sequence |-> Append(candidate.idx_sequence, idx),
     token_sequence |-> Append(candidate.token_sequence, tokens(idx)),
     score |-> SuccessorScore(candidate.score, probs[idx]),
     live |-> idx # start_token_idx]

Successor(candidate, probs, states, idx) ==
    [states |-> states,
     idx_sequence |-> Append(candidate.idx_sequence, idx),
     token_sequence |-> Append(candidate.token_sequence, tokens(idx)),
     score |-> SuccessorScore(candidate.score, probs[idx]),
     live |-> idx # stop_token_idx]

\* the candidates appended by the loop over np.argsort(-probs)[:beam_width]
Successors(candidate, probs, states, order, bw) ==
    [i \in 1 .. Len(Slice(order, bw)) |->
        Successor(candidate, probs, states, order[i])]

\* c put into a list sorted by score, after the entries that are not greater
InsertByScore(sorted, c) ==
    LET k == Cardinality({i \in DOMAIN sorted : ScoreLE(sorted[i].score, c.score)})
    IN SubSeq(sorted, 1, k) \o <<c>> \o SubSeq(sorted, k + 1, Len(sorted))

RECURSIVE StableSort(_)
StableSort(cs) ==
    IF cs = <<>> THEN <<>>
    ELSE InsertByScore(StableSort(SubSeq(cs, 1, Len(cs) - 1)), Last(cs))

RECURSIVE Reverse(_)
Reverse(s) == IF s = <<>> THEN <<>> ELSE Append(Reverse(Tail(s)), Head(s))

\* sorted(new_candidates, key=score, reverse=True)
SortedDescending(cs) == Reverse(StableSort(cs))

\* new_candidates left in the order of expansion
Unsorted(cs) == cs

\* sorted(new_candidates, key=lambda c: c['score']): a stable sort
SortedByScore(cs) == StableSort(cs)

\* the pruning without the slice
PruneAll(cs, bw) == SortedByScore(cs)

\* sorted(new_candidates, key=...)[:beam_width]
Prune(cs, bw) == Slice(SortedByScore(cs), bw)

\* live_k = len(top_candidates): every candidate counted as live
CountLiveCountsAll(cs) == Len(cs)

\* sum(alive == True)
CountLive(cs) == Cardinality({i \in DOMAIN cs : cs[i].live})

\* sum(alive == False)
CountDead(cs) == Cardinality({i \in DOMAIN cs : ~cs[i].live})

\* a loop that stops at the first completed hypothesis
ContinueUntilFirstDead(lk, dk, bw) == lk # 0 /\ dk = 0

\* live_k and dead_k < beam_width
Continue(lk, dk, bw) == lk # 0 /\ dk < bw

\* range(max_len_target + 1)
RangeOneMore(i, n) == i < n + 1

\* the for loop has another item of range(n) after i iterations
RangeHasNext(i, n) == i < n

\* np.zeros((1, max_len_target - 1)) has a column 0 to assign to
TargetSeqHasColumn(n) == n - 1 >= 1

\* ------------------------------------------------------------- the state
VARIABLES
    max_len_target,    \* self.max_len_target
    nr_target_tokens,  \* self.nr_target_tokens
    model_outputs,     \* the distributions the trained model can output
    predict_tab,       \* the values of predict asked for so far
    argsort_tab,       \* the values of argsort asked for so far
    pc,                \* "idle", "for", "candidates", "return" or one of Ended
    beam_width,        \* the argument of the running call
    top_candidates,
    new_candidates,
    ci,                \* position of the loop over top_candidates
    it,                \* iterations of the for loop started
    live_k,
    dead_k,
    result,            \* the token sequence handed to DecodePieces
    predict_calls,     \* calls of predict made by the running call
    beams,             \* the beams of the running call, one per generation
    runs               \* the finished calls: beam_width, beams, outcome, result

vars == <<max_len_target, nr_target_tokens, model_outputs, predict_tab,
          argsort_tab, pc, beam_width, top_candidates, new_candidates, ci, it,
          live_k, dead_k, result, predict_calls, beams, runs>>

config == <<max_len_target, nr_target_tokens, model_outputs>>

EmptyTab == [x \in {} |-> 0]

\* the encoder's states for input_seq: the decoder state that has read nothing
initial_states == <<>>

Fresh ==
    /\ predict_tab = EmptyTab
    /\ argsort_tab = EmptyTab
    /\ pc = "idle"
    /\ beam_width = 0
    /\ top_candidates = <<>>
    /\ new_candidates = <<>>
    /\ ci = 1
    /\ it = 0
    /\ live_k = 0
    /\ dead_k = 0
    /\ result = <<>>
    /\ predict_calls = 0
    /\ beams = <<>>
    /\ runs = <<>>

Init ==
    /\ max_len_target \in 0 .. MaxLenTarget
    /\ nr_target_tokens \in 2 .. MaxVocab
    /\ model_outputs = Distributions(nr_target_tokens)
    /\ Fresh

\* the record of the call that ends with outcome o and result r
Finished(o, r) ==
    Append(runs, [beam_width |-> beam_width, beams |-> beams,
                  outcome |-> o, result |-> r])

\* a call has ended: it returned, or it raised IndexError at target_seq[0, 0]
\* (line 170) or at top_candidates[0] (line 197)
Ended == {"done", "raise_target_seq", "raise_empty_beam"}

\* lines 147-158: a call of decode_beam_search(input_seq, bw)
Decode(bw) ==
    /\ pc \in {"idle"} \cup Ended
    /\ Len(runs) < MaxCalls
    /\ pc' = "for"
    /\ beam_width' = bw
    /\ top_candidates' = <<InitialCandidate(initial_states)>>
    /\ live_k' = 1
    /\ dead_k' = 0
    /\ it' = 0
    /\ new_candidates' = <<>>
    /\ ci' = 1
    /\ result' = <<>>
    /\ predict_calls' = 0
    /\ beams' = <<top_candidates'>>
    /\ UNCHANGED <<config, predict_tab, argsort_tab, runs>>

\* lines 160-163: the head of the for loop and the break
ForLoop ==
    /\ pc = "for"
    /\ IF RangeHasNext(it, max_len_target) /\ Continue(live_k, dead_k, beam_width)
       THEN /\ pc' = "candidates"
            /\ it' = it + 1
            /\ new_candidates' = <<>>
            /\ ci' = 1
       ELSE /\ pc' = "return"
            /\ UNCHANGED <<it, new_candidates, ci>>
    /\ UNCHANGED <<config, predict_tab, argsort_tab, beam_width, top_candidates,
                   live_k, dead_k, result, predict_calls, beams, runs>>

\* predict called for a dead candidate too, before the test of 'live'
PassThroughPredicts ==
    /\ pc = "candidates"
    /\ ci <= Len(top_candidates)
    /\ ~top_candidates[ci].live
    /\ new_candidates' = Append(new_candidates, PassedThrough(top_candidates[ci]))
    /\ ci' = ci + 1
    /\ predict_calls' = predict_calls + 1
    /\ UNCHANGED <<config, predict_tab, argsort_tab, pc, beam_width,
                   top_candidates, it, live_k, dead_k, result, beams, runs>>

\* lines 164-167: a dead candidate is appended as it is
PassThrough ==
    /\ pc = "candidates"
    /\ ci <= Len(top_candidates)
    /\ ~top_candidates[ci].live
    /\ new_candidates' = Append(new_candidates, PassedThrough(top_candidates[ci]))
    /\ ci' = ci + 1
    /\ UNCHANGED <<config, predict_tab, argsort_tab, pc, beam_width,
                   top_candidates, it, live_k, dead_k, result, predict_calls,
                   beams, runs>>

\* lines 169-187: a live candidate is expanded
Expand ==
    /\ pc = "candidates"
    /\ ci <= Len(top_candidates)
    /\ top_candidates[ci].live
    /\ LET candidate == top_candidates[ci]
           states == Append(candidate.states, Last(candidate.idx_sequence))
       IN IF ~TargetSeqHasColumn(max_len_target)
          THEN /\ pc' = "raise_target_seq"
               /\ runs' = Finished("raise_target_seq", <<>>)
               /\ UNCHANGED <<predict_tab, argsort_tab, new_candidates, ci,
                              predict_calls>>
          ELSE \E probs \in Predict(states, predict_tab, model_outputs) :
               \E order \in Argsort(probs, argsort_tab) :
                  /\ predict_tab' = Memo(predict_tab, states, probs)
                  /\ argsort_tab' = Memo(argsort_tab, probs, order)
                  /\ new_candidates' = new_candidates \o
                        Successors(candidate, probs, states, order, beam_width)
                  /\ ci' = ci + 1
                  /\ predict_calls' = predict_calls + 1
                  /\ UNCHANGED <<pc, runs>>
    /\ UNCHANGED <<config, beam_width, top_candidates, it, live_k, dead_k,
                   result, beams>>

\* lines 189-195: the new beam and its counts
Advance ==
    /\ pc = "candidates"
    /\ ci > Len(top_candidates)
    /\ top_candidates' = Prune(new_candidates, beam_width)
    /\ live_k' = CountLive(top_candidates')
    /\ dead_k' = CountDead(top_candidates')
    /\ beams' = Append(beams, top_candidates')
    /\ pc' = "for"
    /\ UNCHANGED <<config, predict_tab, argsort_tab, beam_width, new_candidates,
                   ci, it, result, predict_calls, runs>>

\* top_candidates[-1] in place of top_candidates[0]
ReturnLast ==
    /\ pc = "return"
    /\ IF top_candidates = <<>>
       THEN /\ pc' = "raise_empty_beam"
            /\ runs' = Finished("raise_empty_beam", <<>>)
            /\ UNCHANGED result
       ELSE /\ pc' = "done"
            /\ result' = Last(top_candidates).token_sequence
            /\ runs' = Finished("done", result')
    /\ UNCHANGED <<config, predict_tab, argsort_tab, beam_width, top_candidates,
                   new_candidates, ci, it, live_k, dead_k, predict_calls, beams>>

\* line 197: top_candidates[0]['token_sequence'] goes to DecodePieces
Return ==
    /\ pc = "return"
    /\ IF top_candidates = <<>>
       THEN /\ pc' = "raise_empty_beam"
            /\ runs' = Finished("raise_empty_beam", <<>>)
            /\ UNCHANGED result
       ELSE /\ pc' = "done"
            /\ result' = top_candidates[1].token_sequence
            /\ runs' = Finished("done", result')
    /\ UNCHANGED <<config, predict_tab, argsort_tab, beam_width, top_candidates,
                   new_candidates, ci, it, live_k, dead_k, predict_calls, beams>>

\* the caller's requests: any beam width, and the same request again
Requests ==
    IF runs = <<>> THEN 0 .. MaxBeamWidth ELSE {runs[1].beam_width}

Next ==
    \/ \E bw \in Requests : Decode(bw)
    \/ ForLoop
    \/ PassThrough
    \/ Expand
    \/ Advance
    \/ Return

Spec == Init /\ [][Next]_vars

\* ------------------------------------------------- the spec's scenarios
\* a model that gives the stop token probability 1 on every step
ForcedStop(n) == [i \in Vocab(n) |-> IF i = stop_token_idx THEN Unit ELSE 0]

\* a model that gives each of n tokens the same probability on every step
Uniform(n) == [i \in Vocab(n) |-> Unit \div n]

ScenarioInit ==
    /\ max_len_target \in {10, 20}
    /\ nr_target_tokens = 4
    /\ model_outputs \in {{ForcedStop(4)}, {Uniform(4)}}
    /\ Fresh

ScenarioRequests ==
    IF runs = <<>> THEN 1 .. 3 ELSE {runs[1].beam_width}

ScenarioNext ==
    \/ \E bw \in ScenarioRequests : Decode(bw)
    \/ ForLoop
    \/ PassThrough
    \/ Expand
    \/ Advance
    \/ Return

ScenarioSpec == ScenarioInit /\ [][ScenarioNext]_vars

\* ------------------------------------- a model that breaks its contract
\* a row that is negative somewhere or does not sum to 1
IsDegenerate(probs) ==
    \/ \E i \in DOMAIN probs : probs[i] < 0
    \/ SumOver(probs, DOMAIN probs) # Unit

\* the rows over n tokens that do not sum to 1
Unnormalised(n) == {d \in [Vocab(n) -> ProbValues] : IsDegenerate(d)}

\* inference_decoder_model is an attribute holding a Keras model; the decoder
\* reads whatever row predict returns.  Here the model answers every call
\* with the same row that does not sum to 1.
DegenerateInit ==
    /\ max_len_target \in 0 .. MaxLenTarget
    /\ nr_target_tokens \in 2 .. MaxVocab
    /\ model_outputs \in {{d} : d \in Unnormalised(nr_target_tokens)}
    /\ Fresh

DegenerateSpec == DegenerateInit /\ [][Next]_vars

\* ------------------------------------------------------------ the claims
InCall == pc \in {"for", "candidates", "return"}

Generations == Len(beams) - 1

Raised == pc \in {"raise_target_seq", "raise_empty_beam"}

\* C1: with beam_width >= 1 and max_len_target >= 1 a call of
\* decode_beam_search ends by returning, and no more than max_len_target
\* generations are run.
DecodeReturnsWithinBudget ==
    (pc # "idle" /\ beam_width >= 1 /\ max_len_target >= 1) =>
        /\ it <= max_len_target
        /\ Generations <= max_len_target
        /\ ~Raised

\* C2: after every generation-advance the beam holds at most beam_width
\* candidates.
BeamWithinWidth ==
    Generations >= 1 => Len(top_candidates) <= beam_width

\* a generation that had more candidates than the beam keeps, from a beam
\* of one dead and one live candidate
BeamWithinWidthWitness ==
    /\ pc = "for"
    /\ Generations >= 2
    /\ Len(new_candidates) > beam_width
    /\ Len(top_candidates) = beam_width
    /\ CountDead(beams[Len(beams) - 1]) = 1
    /\ CountLive(beams[Len(beams) - 1]) = 1

IsSorted(cs) ==
    \A i, j \in DOMAIN cs : i < j => ScoreLE(cs[i].score, cs[j].score)

\* C3: at the start of every generation and at halt the beam is sorted
\* ascending by score.
BeamSorted ==
    pc \in {"for", "candidates", "return", "done"} => IsSorted(top_candidates)

\* a beam where a dead candidate passed through from an earlier generation
\* follows a fresh successor, built from candidates that were not in order
BeamSortedWitness ==
    /\ pc = "for"
    /\ Generations >= 2
    /\ ~IsSorted(new_candidates)
    /\ \E i, j \in DOMAIN top_candidates :
          /\ i < j
          /\ top_candidates[i].live
          /\ ~top_candidates[j].live
          /\ Len(top_candidates[j].idx_sequence) < Len(top_candidates[i].idx_sequence)

ProbabilitiesInRange ==
    \A d \in model_outputs : \A i \in DOMAIN d : 0 <= d[i] /\ d[i] <= Unit

IsSuccessorOf(c, parent) ==
    /\ parent.live
    /\ Len(c.idx_sequence) = Len(parent.idx_sequence) + 1
    /\ SubSeq(c.idx_sequence, 1, Len(parent.idx_sequence)) = parent.idx_sequence

\* C4: with probabilities in [0, 1] every score is non-negative and a
\* successor's score is at least its parent's.
ScoresNonNegativeAndMonotone ==
    ProbabilitiesInRange =>
        /\ \A i \in DOMAIN top_candidates :
              ScoreLE(Finite(0), top_candidates[i].score)
        /\ \A i \in DOMAIN new_candidates :
              ScoreLE(Finite(0), new_candidates[i].score)
        /\ pc = "candidates" =>
              \A i \in DOMAIN new_candidates : \A j \in DOMAIN top_candidates :
                 IsSuccessorOf(new_candidates[i], top_candidates[j]) =>
                    ScoreLE(top_candidates[j].score, new_candidates[i].score)

\* a successor whose finite score is greater than its parent's positive score
ScoresNonNegativeAndMonotoneWitness ==
    /\ ProbabilitiesInRange
    /\ pc = "candidates"
    /\ \E i \in DOMAIN new_candidates : \E j \in DOMAIN top_candidates :
          /\ IsSuccessorOf(new_candidates[i], top_candidates[j])
          /\ ScoreLT(Finite(0), top_candidates[j].score)
          /\ ScoreLT(top_candidates[j].score, new_candidates[i].score)
          /\ ~new_candidates[i].score.inf

IsArgMax(probs, idx) == \A j \in DOMAIN probs : probs[j] <= probs[idx]

\* c is what greedy decoding builds with the model's outputs: each id is an
\* arg-max of the step distribution, and the sequence stops after the stop
\* token or after max_len_target steps
GreedyDecoding(c) ==
    LET s == c.idx_sequence
    IN /\ s[1] = start_token_idx
       /\ \A i \in 2 .. Len(s) :
             /\ SubSeq(s, 1, i - 1) \in DOMAIN predict_tab
             /\ IsArgMax(predict_tab[SubSeq(s, 1, i - 1)], s[i])
       /\ \A i \in 2 .. (Len(s) - 1) : s[i] # stop_token_idx
       /\ Len(s) - 1 <= max_len_target
       /\ \/ Len(s) >= 2 /\ s[Len(s)] = stop_token_idx
          \/ Len(s) - 1 = max_len_target
       /\ c.token_sequence = [i \in 1 .. Len(s) |-> tokens(s[i])]

\* C5: with beam_width = 1 the returned token sequence is the one greedy
\* (arg-max) decoding builds.
GreedyEquivalence ==
    (pc = "done" /\ beam_width = 1) =>
        /\ result = top_candidates[1].token_sequence
        /\ GreedyDecoding(top_candidates[1])

\* a greedy run that stops at the stop token before the budget is used up
GreedyEquivalenceWitness ==
    /\ pc = "done"
    /\ beam_width = 1
    /\ Len(result) = 3
    /\ max_len_target = 3
    /\ result[3] = tokens(stop_token_idx)

ForcedStopScenario ==
    /\ nr_target_tokens = 4
    /\ model_outputs = {ForcedStop(4)}
    /\ beam_width = 3
    /\ max_len_target = 10

\* the start token followed by the stop token
StopOnly == <<start_token, tokens(stop_token_idx)>>

\* C6: in the forced-stop scenario the loop halts after exactly one
\* generation and returns the stop-only sequence.
ForcedStopHaltsAfterOneGeneration ==
    (ForcedStopScenario /\ pc = "done") =>
        /\ Generations = 1
        /\ result = StopOnly

\* C6, amended: in the forced-stop scenario the beam of generation g holds g
\* dead and 3 - g live candidates, the loop halts after exactly three
\* generations and returns the stop-only sequence.
ForcedStopHaltsAfterThreeGenerations ==
    ForcedStopScenario =>
        /\ (pc = "for" /\ Generations \in 1 .. 3) =>
              /\ dead_k = Generations
              /\ live_k = 3 - Generations
        /\ pc = "done" =>
              /\ Generations = 3
              /\ result = StopOnly

\* the forced-stop call has returned
ForcedStopHaltsAfterThreeGenerationsWitness ==
    /\ ForcedStopScenario
    /\ pc = "done"
    /\ Generations = 3
    /\ dead_k = 3
    /\ result = StopOnly

\* C7: after each generation-advance live_k and dead_k count the new beam,
\* and another generation is run if and only if live_k > 0,
\* dead_k < beam_width and fewer than max_len_target generations have run.
HaltRule ==
    [][pc = "for" =>
          /\ live_k = CountLive(top_candidates)
          /\ dead_k = CountDead(top_candidates)
          /\ pc' \in {"candidates", "return"}
          /\ (pc' = "candidates") <=>
                (live_k > 0 /\ dead_k < beam_width /\ Generations < max_len_target)
      ]_vars

\* the loop has halted on a beam of two dead candidates with generations to
\* spare
HaltRuleWitness ==
    /\ pc = "return"
    /\ beam_width = 2
    /\ dead_k = 2
    /\ Generations < max_len_target

\* C8: with beam_width >= 1 the beam is never empty, and a call that returns
\* returns the candidate at index 0, whose score is the least of the beam.
BestCandidateReturned ==
    (pc # "idle" /\ beam_width >= 1) =>
        /\ top_candidates # <<>>
        /\ pc # "raise_empty_beam"
        /\ pc = "done" =>
              /\ result = top_candidates[1].token_sequence
              /\ \A i \in DOMAIN top_candidates :
                    ScoreLE(top_candidates[1].score, top_candidates[i].score)

\* the budget ran out with no dead candidate in a beam of two, and the live
\* candidate of lower score was returned
BestCandidateReturnedWitness ==
    /\ pc = "done"
    /\ beam_width = 2
    /\ Generations = max_len_target
    /\ Generations >= 2
    /\ dead_k = 0
    /\ Len(top_candidates) = 2
    /\ ScoreLT(top_candidates[1].score, top_candidates[2].score)
    /\ result = top_candidates[1].token_sequence

UniformScenario ==
    /\ nr_target_tokens = 4
    /\ model_outputs = {Uniform(4)}
    /\ beam_width = 2

\* C9: in the uniform scenario every expansion selects the ids 0 and 1.
TiesBrokenByLowerId ==
    (UniformScenario /\ pc = "candidates") =>
        \A i \in DOMAIN new_candidates :
           Last(new_candidates[i].idx_sequence) \in {0, 1}

IsPrefix(s, t) == Len(s) <= Len(t) /\ SubSeq(t, 1, Len(s)) = s

\* C10: two calls with the same arguments go through the same beams and end
\* with the same result.
Deterministic ==
    /\ \A i, j \in DOMAIN runs :
          runs[i].beam_width = runs[j].beam_width => runs[i] = runs[j]
    /\ InCall =>
          \A i \in DOMAIN runs :
             runs[i].beam_width = beam_width => IsPrefix(beams, runs[i].beams)

\* a second call has returned, after a top-k selection that cut through equal
\* probabilities and a ranking of two candidates of equal score
DeterministicWitness ==
    /\ Len(runs) = 2
    /\ runs[2].outcome = "done"
    /\ runs[2].beam_width = 2
    /\ Len(runs[2].beams) >= 3
    /\ \E probs \in DOMAIN argsort_tab :
          /\ Len(argsort_tab[probs]) > 2
          /\ probs[argsort_tab[probs][2]] = probs[argsort_tab[probs][3]]
    /\ \E g \in DOMAIN runs[2].beams :
          /\ Len(runs[2].beams[g]) = 2
          /\ runs[2].beams[g][1].score = runs[2].beams[g][2].score

\* C11: a call with beam_width <= 0 or max_len_target <= 0 is rejected before
\* the loop is entered: it runs no generation and returns no sequence.
InvalidConfigurationRejected ==
    (pc # "idle" /\ (beam_width <= 0 \/ max_len_target <= 0)) =>
        pc \notin {"candidates", "done"}

\* the row a successor was built from
BuiltFrom(c) == predict_tab[c.states]

\* C12: when predict returns a row that is negative somewhere or does not sum
\* to 1 the call fails at once: no successor is built from that row, in the
\* pool or in any beam, and the call does not go on to return.
DegenerateDistributionFails ==
    /\ \A i \in DOMAIN new_candidates :
          Len(new_candidates[i].idx_sequence) >= 2 =>
             ~IsDegenerate(BuiltFrom(new_candidates[i]))
    /\ \A g \in DOMAIN beams : \A i \in DOMAIN beams[g] :
          Len(beams[g][i].idx_sequence) >= 2 =>
             ~IsDegenerate(BuiltFrom(beams[g][i]))
    /\ pc = "done" => \A k \in DOMAIN predict_tab : ~IsDegenerate(predict_tab[k])

\* a dead candidate of a beam that did not die in the generation before is
\* a candidate of the beam before, with every field the same
DeadStayIdentical ==
    \A g \in 2 .. Len(beams) : \A i \in DOMAIN beams[g] :
       (~beams[g][i].live /\ Len(beams[g][i].idx_sequence) < g) =>
          \E j \in DOMAIN beams[g - 1] : beams[g - 1][j] = beams[g][i]

\* C13: the step for a dead candidate calls no predict and appends the
\* candidate to the pool with states, idx_sequence, token_sequence, score and
\* live as they are; a dead candidate of a later beam is identical to what it
\* was in the beam before.
DeadPassedUnchanged ==
    [][/\ (pc = "candidates" /\ ci <= Len(top_candidates)
            /\ ~top_candidates[ci].live) =>
              /\ new_candidates' = Append(new_candidates, top_candidates[ci])
              /\ predict_tab' = predict_tab
              /\ predict_calls' = predict_calls
       /\ DeadStayIdentical']_vars

\* a candidate that died in the first generation is still in the beam, as it
\* was, after the third
DeadPassedUnchangedWitness ==
    /\ pc = "for"
    /\ Len(beams) = 4
    /\ \E i \in DOMAIN beams[4] :
          /\ ~beams[4][i].live
          /\ Len(beams[4][i].idx_sequence) = 2
          /\ \E j \in DOMAIN beams[2] : beams[2][j] = beams[4][i]
    /\ \E i \in DOMAIN beams[4] : beams[4][i].live

Range(s) == {s[i] : i \in DOMAIN s}

\* C14: the new beam is the best beam_width of the whole pool, dead
\* candidates passed through and fresh successors together: it is sorted, it
\* holds candidates of the pool only, and every candidate kept has a score
\* <= that of every candidate of the pool left out.
GlobalTopK ==
    (pc = "for" /\ Generations >= 1) =>
        /\ Len(top_candidates) = Min(beam_width, Len(new_candidates))
        /\ Range(top_candidates) \subseteq Range(new_candidates)
        /\ IsSorted(top_candidates)
        /\ \A c \in Range(new_candidates) \ Range(top_candidates) :
              \A k \in Range(top_candidates) : ScoreLE(k.score, c.score)

\* a dead candidate ranks first, ahead of a live successor that is kept, and
\* a live successor of higher score appended before the survivor is left out
GlobalTopKWitness ==
    /\ pc = "for"
    /\ Generations >= 2
    /\ beam_width = 2
    /\ Len(top_candidates) = 2
    /\ ~top_candidates[1].live
    /\ top_candidates[2].live
    /\ \E i, j \in DOMAIN new_candidates :
          /\ i < j
          /\ new_candidates[i].live
          /\ new_candidates[i] \notin Range(top_candidates)
          /\ new_candidates[j] = top_candidates[2]
          /\ ScoreLT(top_candidates[2].score, new_candidates[i].score)

\* c is a dead candidate of cs passed through, or cs holds its parent
ComesFrom(c, cs) ==
    \/ ~c.live /\ c \in Range(cs)
    \/ \E i \in DOMAIN cs : IsSuccessorOf(c, cs[i])

WellFormed(c) ==
    /\ c.idx_sequence[1] = start_token_idx
    /\ ~c.live <=> Last(c.idx_sequence) = stop_token_idx
    /\ \A k \in 2 .. (Len(c.idx_sequence) - 1) :
          c.idx_sequence[k] # stop_token_idx

\* C15: every candidate's idx_sequence begins with the start token, the
\* candidate is dead exactly when its last id is the stop token, the stop
\* token is at no position before the last, and the sequence is that of a
\* candidate of the beam before plus one id (or the same dead candidate).
IdSequencesWellFormed ==
    /\ \A g \in DOMAIN beams : \A i \in DOMAIN beams[g] :
          /\ WellFormed(beams[g][i])
          /\ g >= 2 => ComesFrom(beams[g][i], beams[g - 1])
    /\ \A i \in DOMAIN new_candidates :
          /\ WellFormed(new_candidates[i])
          /\ pc = "candidates" => ComesFrom(new_candidates[i], top_candidates)

\* a beam of the third generation with a dead candidate ending in the stop
\* token and a live one of four ids
IdSequencesWellFormedWitness ==
    /\ pc = "for"
    /\ Generations = 3
    /\ \E i, j \in DOMAIN top_candidates :
          /\ ~top_candidates[i].live
          /\ Len(top_candidates[i].idx_sequence) >= 3
          /\ top_candidates[j].live
          /\ Len(top_candidates[j].idx_sequence) = 4

\* the candidates of cs with a finite score
FiniteScored(cs) == {i \in DOMAIN cs : ~cs[i].score.inf}

\* the successors in the pool of the candidate parent
SuccessorsOf(parent) ==
    {i \in DOMAIN new_candidates : IsSuccessorOf(new_candidates[i], parent)}

\* C16: a token of probability 0 among the top beam_width is not left out.
\* Every live candidate expanded gets min(beam_width, vocabulary) successors,
\* one of probability 0 has an infinite score, in a beam the infinite scores
\* come after the finite ones and are there only when the pool holds fewer
\* than beam_width finite scores, and no exception follows from it.
ZeroProbabilityKept ==
    /\ \A i \in DOMAIN new_candidates :
          LET c == new_candidates[i]
          IN  (Len(c.idx_sequence) >= 2
               /\ BuiltFrom(c)[Last(c.idx_sequence)] = 0) => c.score.inf
    /\ pc = "candidates" =>
          \A j \in 1 .. (ci - 1) :
             top_candidates[j].live =>
                Cardinality(SuccessorsOf(top_candidates[j]))
                   = Min(beam_width, nr_target_tokens)
    /\ (pc \in {"for", "return", "done"} /\ Generations >= 1) =>
          /\ \A i, j \in DOMAIN top_candidates :
                (i < j /\ top_candidates[i].score.inf)
                   => top_candidates[j].score.inf
          /\ (\E i \in DOMAIN top_candidates : top_candidates[i].score.inf)
                => Cardinality(FiniteScored(new_candidates)) < beam_width
    /\ (\E i \in DOMAIN new_candidates : new_candidates[i].score.inf)
          => ~Raised

\* a call has returned with a beam that holds, after a finite score, the
\* successor for a token of probability 0
ZeroProbabilityKeptWitness ==
    /\ pc = "done"
    /\ beam_width = 2
    /\ Len(top_candidates) = 2
    /\ ~top_candidates[1].score.inf
    /\ top_candidates[2].score.inf
    /\ BuiltFrom(top_candidates[2])[Last(top_candidates[2].idx_sequence)] = 0
    /\ result = top_candidates[1].token_sequence

\* lines 163-191 for a beam without a live candidate: every candidate is
\* passed through and the pool is sorted and cut
GenerationOfDead(cs, bw) ==
    Prune([i \in DOMAIN cs |-> PassedThrough(cs[i])], bw)

\* n more generations of a beam without a live candidate, run without the
\* test of line 161
RECURSIVE RunGenerations(_, _, _)
RunGenerations(cs, bw, n) ==
    IF n = 0 THEN cs ELSE RunGenerations(GenerationOfDead(cs, bw), bw, n - 1)

\* C17: once no candidate of the beam is live, one more generation leaves the
\* beam as it is, and the generations left of max_len_target, run without the
\* halt test, end with the beam and the result of the call that halted.
EarlyHaltLosesNothing ==
    (pc \in {"for", "return", "done"} /\ CountLive(top_candidates) = 0) =>
        /\ GenerationOfDead(top_candidates, beam_width) = top_candidates
        /\ LET final == RunGenerations(top_candidates, beam_width,
                                       max_len_target - Generations)
           IN  /\ final = top_candidates
               /\ pc = "done" => result = final[1].token_sequence

\* a call has halted before its budget with a beam of two dead candidates
EarlyHaltLosesNothingWitness ==
    /\ pc = "done"
    /\ beam_width = 2
    /\ CountLive(top_candidates) = 0
    /\ Len(top_candidates) = 2
    /\ Generations >= 2
    /\ Generations < max_len_target

\* the live candidates of the first n beams of the call
RECURSIVE LiveInBeams(_)
LiveInBeams(n) ==
    IF n = 0 THEN 0 ELSE LiveInBeams(n - 1) + CountLive(beams[n])

\* C18: predict is called once for every live candidate of the beam a
\* generation starts from and never for a dead one, and a call of
\* decode_beam_search makes no more than beam_width * max_len_target calls
\* of predict.
PredictOncePerLive ==
    /\ pc \in {"for", "return", "done"} =>
          predict_calls = LiveInBeams(Generations)
    /\ pc = "candidates" =>
          predict_calls = LiveInBeams(Generations)
                + CountLive(SubSeq(top_candidates, 1, ci - 1))
    /\ pc # "idle" => predict_calls <= beam_width * max_len_target

\* a call has returned after three generations, one of them from a beam with
\* a dead and a live candidate
PredictOncePerLiveWitness ==
    /\ pc = "done"
    /\ beam_width = 2
    /\ Generations = 3
    /\ \E g \in 1 .. Generations :
          CountDead(beams[g]) = 1 /\ CountLive(beams[g]) = 1
    /\ predict_calls = 4

\* C19: after g generations a live candidate has g + 1 ids and a dead one
\* at most g + 1, a token for every id, and the sequence returned has at
\* most max_len_target + 1 tokens.
LengthBound ==
    /\ \A g \in DOMAIN beams : \A i \in DOMAIN beams[g] :
          LET c == beams[g][i]
          IN  /\ c.live => Len(c.idx_sequence) = g
              /\ Len(c.idx_sequence) <= g
              /\ Len(c.token_sequence) = Len(c.idx_sequence)
    /\ pc # "idle" => Generations <= max_len_target
    /\ pc = "done" => Len(result) <= max_len_target + 1

\* the whole budget was used and the sequence returned has
\* max_len_target + 1 tokens, next to a dead candidate that is shorter
LengthBoundWitness ==
    /\ pc = "done"
    /\ max_len_target = 3
    /\ Generations = 3
    /\ Len(result) = 4
    /\ \E i \in DOMAIN top_candidates :
          ~top_candidates[i].live /\ Len(top_candidates[i].idx_sequence) < 4

\* C20: with beam_width >= 1 the beam never holds more than beam_width
\* candidates, live_k + dead_k <= beam_width, so a live candidate implies
\* dead_k < beam_width and the second conjunct of the loop test never
\* decides: before the budget is used up the loop ends exactly when no
\* candidate is live.
DeadCountNeverDecides ==
    (pc # "idle" /\ beam_width >= 1) =>
        /\ live_k = CountLive(top_candidates)
        /\ dead_k = CountDead(top_candidates)
        /\ live_k + dead_k <= beam_width
        /\ live_k > 0 => dead_k < beam_width
        /\ Continue(live_k, dead_k, beam_width) <=> live_k > 0
        /\ (pc \in {"return", "done"} /\ Generations < max_len_target)
              => live_k = 0
        /\ pc = "candidates" => live_k > 0

\* the loop goes on with a beam that is one live candidate short of
\* beam_width dead ones
DeadCountNeverDecidesWitness ==
    /\ pc = "candidates"
    /\ beam_width = 2
    /\ it >= 2
    /\ live_k = 1
    /\ dead_k = 1

====
